---- MODULE Spec2Model ----
(***************************************************************************)
(* powermeal-ai-choice: the run of main (authentication, day discovery,    *)
(* the per-day decision workflow) and the preference store, as a state     *)
(* machine.  Calendar dates are integers (a day number); a local-midnight  *)
(* DateTime of a date is the same integer.  Option<T> is a sequence of     *)
(* length at most one.  The remote service, the oracle and the user are    *)
(* the environment: every answer they can give is an input of the action   *)
(* that receives it.                                                       *)
(***************************************************************************)
EXTENDS Integers, Sequences, FiniteSets, TLC

(* ------------------------------ bounds -------------------------------- *)
\* calendar dates of the model are 0..MaxDate
MaxDate == 1
\* most open days the calendars of one run report in total
MaxOpen == 2
\* most dish items of a day bundle (SpecDay)
MaxItems == 2
\* most adjustments in one add_new_preferences call of the store harness
MaxBatch == 2
\* most add_new_preferences calls of the store harness
MaxCalls == 3

(* -------------------------- program constants ------------------------- *)
\* preferences.rs:22  "limit to last 100 adjustments"
MAX_ADJUSTMENTS == 100
\* main.rs:101  chrono::Duration::days(14)
WINDOW_DAYS == 14
\* main.rs:152  fetch_historical_orders(token, diets, &date, 7)
HISTORY_DAYS == 7

(* ------------------------------ Option -------------------------------- *)
None == << >>
Some(x) == << x >>
IsSome(o) == Len(o) = 1
Unwrap(o) == o[1]

Dates == 0..MaxDate
Min(a, b) == IF a <= b THEN a ELSE b
Range(s) == { s[i] : i \in 1..Len(s) }

(* ------------------------- preference store --------------------------- *)
\* preferences.rs:53-59: what load_preferences yields when no file exists
DefaultPreferences ==
    [adjustments |-> << >>, last_day_selected |-> None, token |-> None]

\* a drain at the wrong end: the last n elements removed
DrainKeepsOldest(v, n) == SubSeq(v, 1, Len(v) - n)

\* preferences.rs:23-25  Vec::drain(..n): remove the first n elements, keep
\* the rest in order
Drain(v, n) == SubSeq(v, n + 1, Len(v))

\* the new adjustments put in front of the stored ones
PrependPreferences(p, adjustment) ==
    LET extended == adjustment \o p.adjustments
    IN  [p EXCEPT !.adjustments =
            IF Len(extended) > MAX_ADJUSTMENTS
            THEN Drain(extended, Len(extended) - MAX_ADJUSTMENTS)
            ELSE extended]

\* preferences.rs:18-28
add_new_preferences(p, adjustment) ==
    LET extended == p.adjustments \o adjustment
    IN  [p EXCEPT !.adjustments =
            IF Len(extended) > MAX_ADJUSTMENTS
            THEN Drain(extended, Len(extended) - MAX_ADJUSTMENTS)
            ELSE extended]

\* preferences.rs:30-32
get_preferences(p) == p.adjustments

\* preferences.rs:34-38: the stored date as a local-midnight instant
next_day_to_check(p) == p.last_day_selected

\* preferences.rs:40-44
set_next_day_to_check(p, d) == [p EXCEPT !.last_day_selected = Some(d)]

\* a save_token that writes a record holding the token alone
SaveTokenAlone(p, t) == [DefaultPreferences EXCEPT !.token = Some(t)]

\* a save_token that writes nothing
SaveNothing(p, t) == p

\* preferences.rs:62-66
save_token(p, t) == [p EXCEPT !.token = Some(t)]

\* preferences.rs:68-70
stored_token(p) == p.token

(* ------------------------- serde.rs: the data ------------------------- *)
\* serde.rs:159-171  enum DietDayState
DietDayState ==
    {"NoDiet", "Delivered", "CannotChange", "AvailableToSelect", "WithoutMenu"}

\* the display name of the option for dish d (MenuDietOption.name)
DishName(d) == << "name", d >>

\* Iterator::position, 1-based: the first of the indices `matching`, if any
Position(matching) ==
    IF matching = {} THEN None
    ELSE Some(CHOOSE i \in matching : \A j \in matching : i <= j)

\* Iterator::find: the element of v at the first of the indices `matching`
Find(v, matching) ==
    IF matching = {} THEN None ELSE Some(v[Unwrap(Position(matching))])

\* main.rs:301-305, 357-361  the position of the option for dish `id`
PositionOfDish(shown, id) ==
    Position({ i \in 1..Len(shown) : shown[i].dish = id })

\* the filter turned around: the options that are not enabled
DisabledOptions(dish_item) ==
    SelectSeq(dish_item.options, LAMBDA option : ~option.enabled)

\* the option list without the filter
AllOptions(dish_item) == dish_item.options

\* serde.rs:47-52  DishItem::options: the enabled options, in order
options(dish_item) == SelectSeq(dish_item.options, LAMBDA option : option.enabled)

\* the search for the selected option restricted to the enabled options
SelectedAmongEnabled(dish_item) ==
    Find(options(dish_item),
         { i \in 1..Len(options(dish_item)) :
             options(dish_item)[i].dish = dish_item.dish_size_dish })

\* serde.rs:58-61  DishItem::get_selected_option
get_selected_option(dish_item) ==
    Find(dish_item.options,
         { i \in 1..Len(dish_item.options) :
             dish_item.options[i].dish = dish_item.dish_size_dish })

\* serde.rs:21-27  CalendarDayItems::get_dish_item
get_dish_item(members, dish_item_id) ==
    Find(members, { i \in 1..Len(members) : members[i].id = dish_item_id })

\* serde.rs:133-137  DietsList::diet_for_date
diet_for_date(members, d) ==
    Find(members,
         { i \in 1..Len(members) :
             members[i].first_delivery_date <= d /\ d <= members[i].last_delivery_date })

\* every diet of the list, whatever its delivery range
DietsOfAnyRange(members, from, to) == members

\* serde.rs:139-144  DietsList::diets_in_time_range
diets_in_time_range(members, from, to) ==
    SelectSeq(members, LAMBDA diet :
        diet.first_delivery_date <= to /\ from <= diet.last_delivery_date)

(* ---------------------- main.rs: day discovery ------------------------ *)
\* insert x into the ascending sequence v, after the elements equal to it
RECURSIVE Insert(_, _)
Insert(v, x) ==
    IF v = << >> THEN << x >>
    ELSE IF x < Head(v) THEN << x >> \o v
    ELSE << Head(v) >> \o Insert(Tail(v), x)

\* the days left in the order the calendars gave them
NoSort(v) == v

RECURSIVE sort_unstable(_)
\* main.rs:114  days.sort_unstable(): ascending, equal elements all kept
sort_unstable(v) ==
    IF v = << >> THEN << >>
    ELSE Insert(sort_unstable(Tail(v)), Head(v))

\* main.rs:100  the start of the discovery window
WindowStart(p, clock) ==
    IF IsSome(next_day_to_check(p)) THEN Unwrap(next_day_to_check(p)) ELSE clock

\* main.rs:101
WindowEnd(p, clock) == WindowStart(p, clock) + WINDOW_DAYS

\* the dates of 0..MaxDate from a to b, ascending
RECURSIVE DateSeq(_, _)
DateSeq(a, b) == IF a > b THEN << >> ELSE << a >> \o DateSeq(a + 1, b)

\* the days of one calendar that can be configured, with a menu or without
OpenOrWithoutMenu(cal, from, to) ==
    SelectSeq(DateSeq(from, to),
              LAMBDA d : cal[d] \in { "AvailableToSelect", "WithoutMenu" })

\* main.rs:107-111  the days of one calendar marked open-for-selection.  The
\* HashMap is walked in an unspecified order; every reader of days reads it
\* after the sort of line 114, so the walk is taken by ascending date.
OpenDays(cal, from, to) ==
    SelectSeq(DateSeq(from, to), LAMBDA d : cal[d] = "AvailableToSelect")

(* ----------------------- api.rs: remote calls ------------------------- *)
\* what the remote service can answer to a read request
ApiResponses ==
    {"ok", "transport_error", "http_error", "rate_limited", "malformed_json"}

\* what it can answer to the menu-change request (nothing reads the body)
WriteResponses == {"ok", "transport_error", "http_error"}

\* send() (or text()) fails only when the transport fails: no function of
\* api.rs looks at the status of the response
SendFails(r) == r = "transport_error"

\* serde_json::from_str on the body: an answer with an error status carries
\* the service's error document, which is not of the expected type
BodyParses(r) == r = "ok"

\* api.rs:5-20, 22-43, 45-60, 62-81: refresh_token, get_diet, fetch_diets,
\* fetch_calendar return Ok exactly when the request was sent and the body
\* deserialized
json_call_ok(r) == ~SendFails(r) /\ BodyParses(r)

\* api.rs:105-131  fetch_ingredients: also an error unless exactly one record
fetch_ingredients_ok(r, records) == json_call_ok(r) /\ records = 1

\* api.rs:83-103  change_menu: the response is dropped unread
change_menu_ok(r) == ~SendFails(r)

(* -------------------------- the environment --------------------------- *)
\* the first date past the discovery window that starts at date 0
FarDate == WINDOW_DAYS + 1

\* a diet list: at most two diets, the k-th with id k and any date range of
\* the model, or the one day FarDate
DietsWithIds(n) ==
    [1..n -> { [first_delivery_date |-> a, last_delivery_date |-> b] :
                 a \in Dates, b \in Dates }
             \cup { [first_delivery_date |-> FarDate, last_delivery_date |-> FarDate] }]

DietLists ==
    UNION { { [k \in 1..n |->
                [id |-> k,
                 first_delivery_date |-> f[k].first_delivery_date,
                 last_delivery_date |-> f[k].last_delivery_date]] :
              f \in { g \in DietsWithIds(n) :
                        \A k \in 1..n :
                          g[k].first_delivery_date <= g[k].last_delivery_date } } :
            n \in 0..2 }

\* the calendars the service can answer for a diet over from..to: a day
\* outside the diet's delivery range is no-diet
Calendars(diet, from, to) ==
    { c \in [from..to -> DietDayState] :
        \A d \in from..to :
            (d < diet.first_delivery_date \/ d > diet.last_delivery_date)
                => c[d] = "NoDiet" }

\* a dish item with options 1..n in this order, those of `disabled` not
\* enabled, and `selected` the dish id of its dishSize
Item(id, n, disabled, selected) ==
    [id |-> id,
     options |-> [k \in 1..n |->
                    [dish |-> k, name |-> DishName(k), enabled |-> k \notin disabled,
                     ingredients |-> None]],
     dish_size_dish |-> selected]

\* day bundles of the run-level specification: no dish item, or one with two
\* enabled options, the first of them selected
RunMenus == { << >>, << Item(1, 2, {}, 1) >> }

\* the dish items of the day-level specification, of three options: all
\* enabled with the first selected; the first disabled with the second
\* selected, or with itself selected; all enabled with a selected dish that
\* is no option (4)
DayShapes(id) ==
    { Item(id, 3, {}, 1), Item(id, 3, {1}, 2), Item(id, 3, {1}, 1),
      Item(id, 3, {}, 4) }

\* a dish item that came with the ingredients of the options `given`
WithIngredients(dish_item, given) ==
    [dish_item EXCEPT !.options =
        [j \in 1..Len(dish_item.options) |->
            IF j \in given
            THEN [dish_item.options[j] EXCEPT !.ingredients = Some("given")]
            ELSE dish_item.options[j]]]

\* day bundles that came with ingredients: for some options, one of them
\* disabled, or for all
GivenMenus ==
    { << WithIngredients(Item(1, 3, {1}, 2), {2}) >>,
      << WithIngredients(Item(1, 3, {}, 1), {1, 2, 3}) >> }

\* a day bundle whose dish items do not come in the order of their ids
SwappedMenus == { << Item(2, 3, {}, 1), Item(1, 3, {}, 1) >> }

DayMenus ==
    UNION { { m \in [1..n -> UNION { DayShapes(k) : k \in 1..n }] :
                \A k \in 1..n : m[k].id = k } :
            n \in 0..MaxItems }

\* the selections of a parsed oracle answer: any subset of the dish item ids,
\* each with a dish id of that item's option list
OracleSelections(members) ==
    UNION { { f \in [ids -> 1..3] :
                \A i \in ids : \E k \in 1..Len(members) :
                    /\ members[k].id = i
                    /\ f[i] \in { members[k].options[j].dish :
                                    j \in 1..Len(members[k].options) } } :
            ids \in SUBSET { members[k].id : k \in 1..Len(members) } }

\* what the chat completion can answer (ai.rs:166-194)
OracleAnswers == {"api_error", "no_choice", "no_content", "unparsable", "parsed"}

RunEnv ==
    [diet_lists |-> DietLists, open_dates |-> Dates, menus |-> RunMenus,
     tokens |-> { "t1" }, reasons |-> { "" }]

DayEnv ==
    [diet_lists |-> { << [id |-> 1, first_delivery_date |-> 0,
                          last_delivery_date |-> MaxDate] >> },
     open_dates |-> { 0 }, menus |-> DayMenus \cup SwappedMenus \cup GivenMenus,
     tokens |-> { "t1" }, reasons |-> { "", "why" }]

(* ------------------------------- state -------------------------------- *)
VARIABLES
    file,                \* the preference file (absent reads as DefaultPreferences)
    now,                 \* the date of chrono::Local::now()
    pc,                  \* where main is
    token,               \* main: the access token
    diets,               \* main: the fetched diet list
    cal_idx,             \* days_available_to_select: the diet whose calendar is next
    calendar,            \* days_available_to_select: the calendar fetched last
    reported,            \* the (diet, day) pairs the calendars of the run reported open
    days,                \* days_available_to_select / main: the collected days
    day_idx,             \* main: the position of the for loop in days
    date,                \* select_dishes_for_day: the day
    diet_id,             \* select_dishes_for_day: the diet of the day
    calendar_day_items,  \* select_dishes_for_day: the dish items of the day
    last_days_choices,   \* select_dishes_for_day: the history fetched for the oracle
    hydrations,          \* get_diet_with_ingredients: the ingredient requests sent for the day
    ai_request,          \* select_dish: the question and schema sent to the oracle
    ai_result,           \* select_dishes_for_day: the oracle's selections
    dish_idx,            \* select_dishes: the dish item the loop is at
    selections,          \* select_dishes: the index the user chose, per dish item done
    new_preferences,     \* select_dishes: the adjustments recorded
    menu_changes,        \* select_dishes_for_day: menu_changes.items
    requests,            \* the change-menu requests sent to the service in this run
    response,            \* the service's answer to the request of the last step, if any
    confirmed,           \* the user's answer to the confirmation of the last step, if any
    calls                \* store harness: add_new_preferences calls made

vars ==
    << file, now, pc, token, diets, cal_idx, calendar, reported, days, day_idx, date, diet_id,
       calendar_day_items, hydrations, last_days_choices, ai_request, ai_result, dish_idx,
       selections, new_preferences, menu_changes, requests, response, confirmed,
       calls >>

\* the locals of select_dishes_for_day
day_locals ==
    << diet_id, calendar_day_items, hydrations, last_days_choices, ai_request, ai_result,
       dish_idx, selections, new_preferences, menu_changes >>

\* the locals of main outside the day workflow
run_locals == << token, diets, cal_idx, calendar, reported, days, day_idx, date >>

NoLocals ==
    /\ token = None /\ diets = << >> /\ cal_idx = 0 /\ days = << >>
    /\ day_idx = 0 /\ date = None /\ diet_id = None
    /\ calendar_day_items = << >> /\ last_days_choices = << >>
    /\ ai_result = None /\ dish_idx = 0 /\ selections = << >>
    /\ new_preferences = << >> /\ menu_changes = << >>
    /\ calendar = None /\ ai_request = None /\ hydrations = << >> /\ reported = {}
    /\ requests = << >> /\ response = None /\ confirmed = None /\ calls = 0

\* a run starts with a store a former run may have left: a token or none, a
\* last-processed date or none.  The clock is read only when no date is
\* stored (main.rs:100), so it is any date then and date 0 otherwise.
Init ==
    /\ file \in { [DefaultPreferences EXCEPT !.token = t, !.last_day_selected = d] :
                    t \in { None, Some("t1") },
                    d \in { None } \cup { Some(x) : x \in Dates } }
    /\ now \in IF file.last_day_selected = None THEN Dates ELSE { 0 }
    /\ pc = "main"
    /\ NoLocals

\* the day-level specification starts with a token stored and no date
InitDay ==
    /\ file = [DefaultPreferences EXCEPT !.token = Some("t1")]
    /\ now = 0
    /\ pc = "main"
    /\ NoLocals

\* a `?` that returns an error from main (main.rs:42)
Fail ==
    /\ pc' = "exit_err"
    /\ response' = None /\ confirmed' = None
    /\ UNCHANGED << file, now, run_locals, day_locals, requests, calls >>

\* the same when the error is what a function of api.rs returned for the
\* answer r of the service
FailOn(r) ==
    /\ pc' = "exit_err"
    /\ response' = Some(r) /\ confirmed' = None
    /\ UNCHANGED << file, now, run_locals, day_locals, requests, calls >>

\* an unwrap() or expect() on nothing: the process aborts
Panic ==
    /\ pc' = "panic"
    /\ response' = None /\ confirmed' = None
    /\ UNCHANGED << file, now, run_locals, day_locals, requests, calls >>

(* --------------------- main.rs:42-62: authentication ------------------ *)
\* main.rs:46-49
Main ==
    /\ pc = "main"
    /\ pc' = IF stored_token(file) = None THEN "update_token_48" ELSE "authenticate"
    /\ response' = None /\ confirmed' = None
    /\ UNCHANGED << file, now, run_locals, day_locals, requests, calls >>

\* main.rs:78-93  one round of the loop of update_token, called at line 48 or
\* line 58: the prompt, the refresh, and on success save_token and the return
UpdateToken(env) ==
    /\ pc \in { "update_token_48", "update_token_58" }
    /\ \E entered \in { None } \cup { Some(t) : t \in env.tokens }, r \in ApiResponses :
         IF entered = None
         THEN Fail
         ELSE IF json_call_ok(r)
         THEN /\ file' = save_token(file, Unwrap(entered))
              /\ IF pc = "update_token_48"
                 THEN pc' = "authenticate" /\ token' = token
                 ELSE pc' = "fetch_diets" /\ token' = Some(Unwrap(entered))
              /\ response' = Some(r) /\ confirmed' = None
              /\ UNCHANGED << now, diets, cal_idx, calendar, reported, days, day_idx, date,
                              day_locals, requests, calls >>
         ELSE /\ response' = Some(r) /\ confirmed' = None
              /\ UNCHANGED << file, now, pc, run_locals, day_locals, requests, calls >>

\* main.rs:51-60
Authenticate ==
    /\ pc = "authenticate"
    /\ \E r \in ApiResponses :
         IF stored_token(file) = None
         THEN Fail
         ELSE /\ IF json_call_ok(r)
                 THEN pc' = "fetch_diets" /\ token' = stored_token(file)
                 ELSE pc' = "update_token_58" /\ token' = token
              /\ response' = Some(r) /\ confirmed' = None
              /\ UNCHANGED << file, now, diets, cal_idx, calendar, reported, days, day_idx, date,
                              day_locals, requests, calls >>

(* ------------------ main.rs:62-63, 95-116: discovery ------------------ *)
\* main.rs:62 and 99-103: fetch_diets, then days_available_to_select up to its
\* first calendar request; with no diet in the window it returns at once
FetchDiets(env) ==
    /\ pc = "fetch_diets"
    /\ \E r \in ApiResponses, members \in env.diet_lists :
         IF ~json_call_ok(r)
         THEN FailOn(r)
         ELSE /\ diets' = members
              /\ days' = << >>
              /\ calendar' = None /\ reported' = {}
              /\ response' = Some(r) /\ confirmed' = None
              /\ IF diets_in_time_range(members, WindowStart(file, now),
                                        WindowEnd(file, now)) = << >>
                 THEN pc' = "main_loop" /\ cal_idx' = 0 /\ day_idx' = 1
                 ELSE pc' = "fetch_calendar" /\ cal_idx' = 1 /\ day_idx' = day_idx
              /\ UNCHANGED << file, now, token, date, day_locals, requests, calls >>

\* main.rs:103-115  one round of the loop over the diets of the window: the
\* calendar request and the open days pushed; after the last diet, the sort
FetchCalendar(env) ==
    /\ pc = "fetch_calendar"
    /\ LET from == WindowStart(file, now)
           to == Min(WindowEnd(file, now), MaxDate)
           in_range == diets_in_time_range(diets, from, WindowEnd(file, now))
           diet == in_range[cal_idx]
       IN  \E r \in ApiResponses, cal \in Calendars(diet, from, to) :
             IF ~json_call_ok(r)
             THEN FailOn(r)
             ELSE LET pushed == days \o OpenDays(cal, from, to)
                  IN  /\ Range(OpenDays(cal, from, to)) \subseteq env.open_dates
                      /\ Len(pushed) <= MaxOpen
                      /\ calendar' = Some(cal)
                      /\ reported' = reported \cup
                             { [diet_id |-> diet.id, date |-> d] : d \in Range(OpenDays(cal, from, to)) }
                      /\ response' = Some(r) /\ confirmed' = None
                      /\ IF cal_idx = Len(in_range)
                         THEN /\ days' = sort_unstable(pushed)
                              /\ pc' = "main_loop" /\ cal_idx' = 0 /\ day_idx' = 1
                         ELSE /\ days' = pushed
                              /\ pc' = pc /\ cal_idx' = cal_idx + 1
                              /\ day_idx' = day_idx
                      /\ UNCHANGED << file, now, token, diets, date, day_locals,
                                      requests, calls >>

\* main.rs:65-73  the emptiness check and the head of the for loop.  The
\* locals of select_dishes_for_day keep the values of the day before until
\* the next day starts, and the calendar fetched last is kept until here.
MainLoop ==
    /\ pc = "main_loop"
    /\ calendar' = None /\ reported' = reported
    /\ response' = None /\ confirmed' = None
    /\ IF day_idx > Len(days)
       THEN /\ pc' = "exit_ok"
            /\ UNCHANGED << date, day_locals >>
       ELSE /\ pc' = "select_dishes_for_day"
            /\ date' = Some(days[day_idx])
            /\ diet_id' = None
            /\ calendar_day_items' = << >>
            /\ last_days_choices' = << >>
            /\ ai_request' = None
            /\ hydrations' = << >>
            /\ ai_result' = None
            /\ dish_idx' = 0
            /\ selections' = << >>
            /\ new_preferences' = << >>
            /\ menu_changes' = << >>
    /\ UNCHANGED << file, now, token, diets, cal_idx, days, day_idx, requests, calls >>

(* ------------- main.rs:141-193: the day decision workflow ------------- *)
\* the 1..=days offsets of fetch_historical_orders, in the order .rev() walks
\* them: days, days-1, .. 1
RECURSIVE OffsetsFwd(_)
\* the offsets walked without .rev(): 1, 2, .. days
OffsetsFwd(n) == IF n < 1 THEN << >> ELSE OffsetsFwd(n - 1) \o << n >>

RECURSIVE OffsetsRev(_)
OffsetsRev(n) == IF n < 1 THEN << >> ELSE << n >> \o OffsetsRev(n - 1)

\* main.rs:276-280  the key of a history entry
HistoryKey(day) ==
    IF day = 1 THEN [label |-> "yesterday", n |-> 1]
               ELSE [label |-> "days ago", n |-> day]

\* main.rs:257-289  fetch_historical_orders when every fetch succeeds: one
\* entry per offset whose day some diet covers, in walk order
fetch_historical_orders(members, d, n) ==
    LET covered == SelectSeq(OffsetsRev(n),
                             LAMBDA day : IsSome(diet_for_date(members, d - day)))
    IN  [k \in 1..Len(covered) |->
            [key |-> HistoryKey(covered[k]),
             date |-> d - covered[k],
             diet_id |-> Unwrap(diet_for_date(members, d - covered[k])).id]]

\* every option of the k-th dish item, with ingredients or without
EveryOptionOf(members, k) ==
    [j \in 1..Len(members[k].options) |-> [item |-> k, option |-> j]]

\* main.rs:125-126  the options of the k-th dish item that have no
\* ingredients, every option of the list, in the order of the list
MissingOf(members, k) ==
    SelectSeq([j \in 1..Len(members[k].options) |-> [item |-> k, option |-> j]],
              LAMBDA x : members[k].options[x.option].ingredients = None)

RECURSIVE MissingUpTo(_, _)
\* main.rs:124-126  the same over the first k dish items, in their order
MissingUpTo(members, k) ==
    IF k = 0 THEN << >>
    ELSE MissingUpTo(members, k - 1) \o MissingOf(members, k)

\* main.rs:131  the request for the ingredients of one option (the option
\* stands for its dish_size_id)
IngredientRequest(members, x) ==
    [dish_item |-> members[x.item].id, dish |-> members[x.item].options[x.option].dish]

\* main.rs:124-137  the bundle when every request succeeded: ingredients
\* attached where there were none.  The ingredient list itself is not
\* modelled: the value says whether it came with the items or was fetched
Hydrated(members) ==
    [k \in 1..Len(members) |->
        [members[k] EXCEPT !.options =
            [j \in 1..Len(members[k].options) |->
                IF members[k].options[j].ingredients = None
                THEN [members[k].options[j] EXCEPT !.ingredients = Some("fetched")]
                ELSE members[k].options[j]]]]

\* main.rs:146-151  diet_for_date, then get_diet_with_ingredients
\* (main.rs:118-139): the day's items, and one ingredient request for each
\* option that has none; `ri` with `records` answers the n-th of these
\* when it is the first that does not succeed
SelectDishesForDay(env) ==
    /\ pc = "select_dishes_for_day"
    /\ LET diet == diet_for_date(diets, Unwrap(date))
       IN  \E r \in ApiResponses, ri \in ApiResponses, records \in 0..2,
              members \in env.menus :
             LET missing == MissingUpTo(members, Len(members))
                 sent(n) == [i \in 1..n |-> IngredientRequest(members, missing[i])]
             IN  IF diet = None
                 THEN Fail
                 ELSE IF ~json_call_ok(r)
                 THEN FailOn(r)
                 ELSE IF missing # << >> /\ ~fetch_ingredients_ok(ri, records)
                 THEN \E n \in 1..Len(missing) :
                        /\ hydrations' = sent(n)
                        /\ pc' = "exit_err"
                        /\ response' = Some(ri) /\ confirmed' = None
                        /\ UNCHANGED << file, now, run_locals, diet_id,
                                        calendar_day_items, last_days_choices,
                                        ai_request, ai_result, dish_idx, selections,
                                        new_preferences, menu_changes, requests,
                                        calls >>
                 ELSE /\ diet_id' = Some(Unwrap(diet).id)
                      /\ calendar_day_items' = Hydrated(members)
                      /\ hydrations' = sent(Len(missing))
                      /\ pc' = "fetch_historical_orders"
                      /\ response' = Some(IF missing # << >> THEN ri ELSE r)
                      /\ confirmed' = None
                      /\ UNCHANGED << file, now, run_locals, last_days_choices,
                                      ai_request, ai_result, dish_idx, selections,
                                      new_preferences, menu_changes, requests, calls >>

\* main.rs:152  fetch_historical_orders(token, diets, &date, 7): an item or
\* ingredient request of a covered day that fails ends the day
FetchHistoricalOrders ==
    /\ pc = "fetch_historical_orders"
    /\ LET history == fetch_historical_orders(diets, Unwrap(date), HISTORY_DAYS)
       IN  \E r \in ApiResponses :
             IF history # << >> /\ ~json_call_ok(r)
             THEN FailOn(r)
             ELSE /\ last_days_choices' = history
                  /\ pc' = "select_dish"
                  /\ response' = (IF history # << >> THEN Some(r) ELSE None) /\ confirmed' = None
                  /\ UNCHANGED << file, now, run_locals, diet_id, calendar_day_items, hydrations,
                                  ai_request, ai_result, dish_idx, selections,
                                  new_preferences, menu_changes, requests, calls >>

\* ai.rs:144-148  an option as the oracle is told of it (the ingredient list
\* is not modelled)
AiMenuDietOption(option) == [name |-> option.name, id |-> option.dish]

\* ai.rs:141-149  a dish item as the oracle is told of it
AiDishItem(dish_item) ==
    [id |-> dish_item.id,
     options |-> [k \in 1..Len(options(dish_item)) |->
                    AiMenuDietOption(options(dish_item)[k])]]

\* ai.rs:139-161  the question: the day, its dish items, the stored
\* adjustments read at this point, and the keys of the history
SelectDishQuestion(d, members, history, p) ==
    [menu_date |-> d,
     dish_items |-> [k \in 1..Len(members) |-> AiDishItem(members[k])],
     user_changes |-> get_preferences(p),
     last_days_choices |-> [k \in 1..Len(history) |-> history[k].key]]

\* ai.rs:72-118  the response schema: the dish item ids required under
\* selections and, for each, the dish ids its dish_id may take
ResponseSchema(members) ==
    [required |-> [k \in 1..Len(members) |-> members[k].id],
     dish_id_enum |-> [k \in 1..Len(members) |->
                         [j \in 1..Len(options(members[k])) |->
                             options(members[k])[j].dish]]]

\* ai.rs:166-194  what select_dish returns for an answer of the oracle: the
\* parsed content, whatever dish items its selections name
select_dish(answer, chosen) ==
    IF answer = "parsed" THEN Some(chosen) ELSE None

\* a return right after the preferences were handled
NextStageReturnsAfterSave(stage, adjustments, changes) ==
    IF stage = "selected" /\ adjustments # << >> THEN "confirm_preferences_save"
    ELSE IF stage = "selected" /\ changes # << >> THEN "confirm_menu_change"
    ELSE "set_next_day_to_check"

\* main.rs:177-192  where select_dishes_for_day goes once select_dishes
\* ("selected"), confirm_preferences_save ("saved") or confirm_menu_change
\* ("changed") has returned Ok
NextStage(stage, adjustments, changes) ==
    IF stage = "selected" /\ adjustments # << >> THEN "confirm_preferences_save"
    ELSE IF stage \in { "selected", "saved" } /\ changes # << >>
    THEN "confirm_menu_change"
    ELSE "set_next_day_to_check"

\* main.rs:191  nothing is left to confirm: the day's workflow completes
Finishing(stage, adjustments, changes) ==
    NextStage(stage, adjustments, changes) = "set_next_day_to_check"

\* main.rs:191  the date written when the day's workflow completes
NextDayToCheck(d) == d + 1

\* main.rs:177-192  the rest of select_dishes_for_day that runs without
\* waiting: the two emptiness tests and, when nothing is left to confirm,
\* set_next_day_to_check and the return to the for loop of main
Proceed(stage, p, adjustments, changes) ==
    IF Finishing(stage, adjustments, changes)
    THEN /\ file' = set_next_day_to_check(p, NextDayToCheck(Unwrap(date)))
         /\ pc' = "main_loop"
         /\ day_idx' = day_idx + 1
    ELSE /\ file' = p
         /\ pc' = NextStage(stage, adjustments, changes)
         /\ day_idx' = day_idx

\* main.rs:153-175  the oracle call; with no dish item select_dishes returns
\* at once
SelectDish ==
    /\ pc = "select_dish"
    /\ ai_request' =
          Some([question |-> SelectDishQuestion(Unwrap(date), calendar_day_items,
                                                last_days_choices, file),
                schema |-> ResponseSchema(calendar_day_items)])
    /\ response' = None /\ confirmed' = None
    /\ \E answer \in OracleAnswers, chosen \in OracleSelections(calendar_day_items) :
         LET result == select_dish(answer, chosen)
         IN  IF result = None
             THEN /\ pc' = "exit_err"
                  /\ UNCHANGED << file, now, run_locals, diet_id, calendar_day_items, hydrations,
                                  last_days_choices, ai_result, dish_idx, selections,
                                  new_preferences, menu_changes, requests, calls >>
             ELSE IF calendar_day_items = << >>
             THEN /\ Proceed("selected", file, << >>, << >>)
                  /\ ai_result' = result
                  /\ UNCHANGED << now, token, diets, cal_idx, calendar, reported, days, date,
                                  diet_id, calendar_day_items, hydrations, last_days_choices,
                                  dish_idx, selections, new_preferences, menu_changes,
                                  requests, calls >>
             ELSE /\ ai_result' = result
                  /\ dish_idx' = 1
                  /\ pc' = "select_dishes"
                  /\ UNCHANGED << file, now, run_locals, diet_id, calendar_day_items, hydrations,
                                  last_days_choices, selections, new_preferences,
                                  menu_changes, requests, calls >>

(* ---------------- main.rs:291-371: the decision loop ------------------ *)
\* the adjustment test made against the current option
AdjustmentVsCurrent(selection, ai_selected, current) == selection # current

\* the menu-change test made against the oracle's option
MenuChangeVsOracle(selection, ai_selected, current) == selection # ai_selected

\* main.rs:335  an adjustment is recorded when the choice is not the oracle's
AdjustmentNeeded(selection, ai_selected, current) == selection # ai_selected

\* main.rs:362  a menu change is recorded when the choice is not the current one
MenuChangeNeeded(selection, ai_selected, current) == selection # current

\* main.rs:340-349
UserAdjustment(shown, ai_selected, selection, explaination, d) ==
    [from |-> shown[ai_selected].name,
     to |-> shown[selection].name,
     reason |-> IF explaination = "" THEN None ELSE Some(explaination),
     date |-> d]

\* main.rs:363-366
ChangeMenuItem(shown, selection, dish_item) ==
    [dish |-> shown[selection].dish, dish_item |-> dish_item.id]

\* main.rs:352-355  the dish id of the selected option; unwrap_or_default
\* gives the empty string, which is no dish id (0 here)
SelectedOptionId(dish_item) ==
    IF IsSome(get_selected_option(dish_item))
    THEN Unwrap(get_selected_option(dish_item)).dish
    ELSE 0

\* a lookup that falls back on the first option of the dish item
OracleChoiceOrFirst(picks, dish_item) ==
    IF dish_item.id \in DOMAIN picks THEN Some(picks[dish_item.id])
    ELSE Some(dish_item.options[1].dish)

\* main.rs:300  ai_result.selections.get(&dish_item.id): the dish id the
\* oracle chose for the dish item, if its selections have the id
OracleChoice(picks, dish_item) ==
    IF dish_item.id \in DOMAIN picks THEN Some(picks[dish_item.id]) ELSE None

\* main.rs:299-369  one round of the loop of select_dishes, and after the
\* last dish item the return into select_dishes_for_day
SelectDishes(env) ==
    /\ pc = "select_dishes"
    /\ LET dish_item == calendar_day_items[dish_idx]
           picks == Unwrap(ai_result)
           shown == options(dish_item)
       IN  IF OracleChoice(picks, dish_item) = None
           THEN Panic
           ELSE
           LET ai_selected ==
                   PositionOfDish(shown, Unwrap(OracleChoice(picks, dish_item)))
               current == PositionOfDish(shown, SelectedOptionId(dish_item))
               \* the two positions as indices (0: none; read only when there is one)
               ai_at == IF ai_selected = None THEN 0 ELSE Unwrap(ai_selected)
               current_at == IF current = None THEN 0 ELSE Unwrap(current)
           IN  IF ai_selected = None
               THEN Panic
               ELSE
               \E answer \in { None } \cup { Some(i) : i \in 1..Len(shown) },
                  why \in { None } \cup { Some(t) : t \in env.reasons } :
                 IF answer = None
                 THEN Fail
                 ELSE IF AdjustmentNeeded(Unwrap(answer), ai_at, current_at) /\ why = None
                 THEN Fail
                 ELSE IF current = None
                 THEN Panic
                 ELSE
                 LET selection == Unwrap(answer)
                     adjustments ==
                         IF AdjustmentNeeded(selection, ai_at, current_at)
                         THEN Append(new_preferences,
                                     UserAdjustment(shown, ai_at, selection,
                                                    Unwrap(why), Unwrap(date)))
                         ELSE new_preferences
                     changes ==
                         IF MenuChangeNeeded(selection, ai_at, current_at)
                         THEN Append(menu_changes,
                                     ChangeMenuItem(shown, selection, dish_item))
                         ELSE menu_changes
                 IN  /\ selections' = Append(selections, selection)
                     /\ new_preferences' = adjustments
                     /\ menu_changes' = changes
                     /\ IF dish_idx < Len(calendar_day_items)
                        THEN /\ dish_idx' = dish_idx + 1
                             /\ UNCHANGED << file, pc, day_idx >>
                        ELSE /\ dish_idx' = dish_idx
                             /\ Proceed("selected", file, adjustments, changes)
                     /\ response' = None /\ confirmed' = None
                     /\ UNCHANGED << now, token, diets, cal_idx, calendar, reported, days, date,
                                     diet_id, calendar_day_items, hydrations, last_days_choices,
                                     ai_request, ai_result, requests, calls >>

\* main.rs:195-217  confirm_preferences_save, and the return into
\* select_dishes_for_day; new_preferences is moved into the call
ConfirmPreferencesSave ==
    /\ pc = "confirm_preferences_save"
    /\ \E answer \in { None, Some(TRUE), Some(FALSE) } :
         IF answer = None
         THEN Fail
         ELSE /\ Proceed("saved",
                         IF Unwrap(answer)
                         THEN add_new_preferences(file, new_preferences)
                         ELSE file,
                         << >>, menu_changes)
              /\ response' = None /\ confirmed' = answer
              /\ UNCHANGED << now, token, diets, cal_idx, calendar, reported, days, date,
                              day_locals, requests, calls >>

\* main.rs:227-244  the diff shown names, for every change, the dish item and
\* its selected option
DiffShown(members, changes) ==
    \A k \in 1..Len(changes) :
        /\ IsSome(get_dish_item(members, changes[k].dish_item))
        /\ IsSome(get_selected_option(
                    Unwrap(get_dish_item(members, changes[k].dish_item))))

\* api.rs:83-103  the request change_menu sends
ChangeMenuRequest(d, diet, changes, r) ==
    [date |-> d, diet_id |-> diet, items |-> changes, response |-> r]

\* main.rs:219-255  confirm_menu_change, and the return into
\* select_dishes_for_day
ConfirmMenuChange ==
    /\ pc = "confirm_menu_change"
    /\ \E answer \in { None, Some(TRUE), Some(FALSE) }, r \in WriteResponses :
         IF ~DiffShown(calendar_day_items, menu_changes) \/ answer = None
         THEN Fail
         ELSE /\ requests' =
                    IF Unwrap(answer)
                    THEN Append(requests,
                                ChangeMenuRequest(Unwrap(date), Unwrap(diet_id),
                                                  menu_changes, r))
                    ELSE requests
              /\ response' = (IF Unwrap(answer) THEN Some(r) ELSE None) /\ confirmed' = answer
              /\ IF Unwrap(answer) /\ ~change_menu_ok(r)
                 THEN pc' = "exit_err" /\ UNCHANGED << file, day_idx >>
                 ELSE Proceed("changed", file, << >>, menu_changes)
              /\ UNCHANGED << now, token, diets, cal_idx, calendar, reported, days, date,
                              day_locals, calls >>

(* --------------------------- store harness ---------------------------- *)
\* a stored history of n adjustments, the i-th dated i
History(n) ==
    [i \in 1..n |->
        [from |-> DishName(1), to |-> DishName(2), reason |-> None, date |-> i]]

\* the adjustments a caller can pass
HarnessAdjustments ==
    { [from |-> DishName(2), to |-> DishName(1), reason |-> r, date |-> 0] :
        r \in { None, Some("why") } }

HarnessBatches ==
    UNION { [1..n -> HarnessAdjustments] : n \in 0..MaxBatch }

\* the store as runs can have left it: empty, or close to the cap
InitStore ==
    /\ file \in { [DefaultPreferences EXCEPT !.adjustments = History(n)] :
                    n \in { 0 } \cup (MAX_ADJUSTMENTS - MaxBatch)..MAX_ADJUSTMENTS }
    /\ now = 0
    /\ pc = "store"
    /\ NoLocals

\* a caller builds the vector it will pass (main.rs:297, 340)
StoreCompose ==
    /\ pc = "store"
    /\ calls < MaxCalls
    /\ \E batch \in HarnessBatches : new_preferences' = batch
    /\ pc' = "store_call"
    /\ UNCHANGED << file, now, run_locals, diet_id, calendar_day_items, hydrations,
                    last_days_choices, ai_request, ai_result, dish_idx, selections,
                    menu_changes, requests, response, confirmed, calls >>

\* main.rs:212  Preferences::add_new_preferences(new_preferences)
StoreAdd ==
    /\ pc = "store_call"
    /\ file' = add_new_preferences(file, new_preferences)
    /\ new_preferences' = << >>
    /\ calls' = calls + 1
    /\ pc' = "store"
    /\ UNCHANGED << now, run_locals, diet_id, calendar_day_items, hydrations, last_days_choices,
                    ai_request, ai_result, dish_idx, selections, menu_changes,
                    requests, response, confirmed >>

(* --------------------------- specifications --------------------------- *)
Step(env) ==
    \/ Main
    \/ UpdateToken(env)
    \/ Authenticate
    \/ FetchDiets(env)
    \/ FetchCalendar(env)
    \/ MainLoop
    \/ SelectDishesForDay(env)
    \/ FetchHistoricalOrders
    \/ SelectDish
    \/ SelectDishes(env)
    \/ ConfirmPreferencesSave
    \/ ConfirmMenuChange

\* a whole run, over every diet list and calendar, with small day bundles
Next == Step(RunEnv)

Spec == Init /\ [][Next]_vars

\* a run with one diet and one open day, over every day bundle
NextDay == Step(DayEnv)

SpecDay == InitDay /\ [][NextDay]_vars

\* a run in which the user can enter either of two tokens, over one diet
\* and one open day
AuthEnv ==
    [diet_lists |-> { << [id |-> 1, first_delivery_date |-> 0,
                          last_delivery_date |-> MaxDate] >> },
     open_dates |-> { 0 }, menus |-> RunMenus,
     tokens |-> { "t1", "t2" }, reasons |-> { "" }]

NextAuth == Step(AuthEnv)

SpecAuth == Init /\ [][NextAuth]_vars

\* the day-level run on a store that former runs have filled: empty, one
\* entry short of the cap, or at the cap
InitCap ==
    /\ file \in { [DefaultPreferences EXCEPT !.token = Some("t1"),
                                              !.adjustments = History(n)] :
                    n \in { 0, MAX_ADJUSTMENTS - 1, MAX_ADJUSTMENTS } }
    /\ now = 0
    /\ pc = "main"
    /\ NoLocals

SpecCap == InitCap /\ [][NextDay]_vars

\* a diet of the list with the given id and delivery range
Diet(id, first, last) ==
    [id |-> id, first_delivery_date |-> first, last_delivery_date |-> last]

\* runs whose diets began before today: two diets with uncovered days
\* between and before them, one diet from yesterday on, one from today on,
\* and two diets that both cover the last two days
HistoryEnv ==
    [diet_lists |->
        { << Diet(1, 0 - HISTORY_DAYS, 1 - HISTORY_DAYS), Diet(2, 0 - 3, MaxDate) >>,
          << Diet(1, 0 - 1, MaxDate) >>,
          << Diet(1, 0, MaxDate) >>,
          << Diet(1, 0 - 2, MaxDate), Diet(2, 0 - 2, MaxDate) >> },
     open_dates |-> Dates, menus |-> RunMenus,
     tokens |-> { "t1" }, reasons |-> { "" }]

NextHistory == Step(HistoryEnv)

SpecHistory == InitDay /\ [][NextHistory]_vars

\* the preference store under repeated add_new_preferences
NextStore == StoreCompose \/ StoreAdd

SpecStore == InitStore /\ [][NextStore]_vars

(* ------------------------------ properties ---------------------------- *)
\* the last element of a non-empty sequence
Last(v) == v[Len(v)]

\* the dish items the user has decided in the day at hand
Decided == 1..Len(selections)

\* the dish id the user chose for the k-th dish item
Chosen(k) == options(calendar_day_items[k])[selections[k]].dish

\* the dish id the oracle recommended for the k-th dish item
Recommended(k) == Unwrap(ai_result)[calendar_day_items[k].id]

\* the dish id configured on the remote side for the k-th dish item
Configured(k) == calendar_day_items[k].dish_size_dish

\* the menu changes recorded for the k-th dish item
ChangesOf(k) ==
    { j \in 1..Len(menu_changes) :
        menu_changes[j].dish_item = calendar_day_items[k].id }

\* the dish items decided up to the k-th whose choice is not the oracle's
Overridden(k) == { j \in 1..k : Chosen(j) # Recommended(j) }

\* C1: add_new_preferences keeps at most 100 adjustments: after a call the
\* store holds the last min(100, old + new) entries of the old history
\* followed by the new adjustments, in their order, so that the oldest are
\* the ones discarded.
C1_CapKeepsMostRecent ==
    [][pc = "store_call" =>
          LET all == file.adjustments \o new_preferences
              kept == file'.adjustments
          IN  /\ Len(kept) = Min(Len(all), MAX_ADJUSTMENTS)
              /\ \A i \in 1..Len(kept) : kept[i] = all[Len(all) - Len(kept) + i]]_vars

\* a call on a store close to the cap has discarded the oldest entries and
\* kept the newest
C1_Witness ==
    /\ pc = "store" /\ calls > 0
    /\ Len(file.adjustments) = MAX_ADJUSTMENTS
    /\ file.adjustments[1].date > 1
    /\ Last(file.adjustments).date = 0

\* C2: a menu change is recorded for a dish item exactly when the user's
\* final choice differs from the option configured on the remote side, and
\* it names that dish item and the chosen dish; what the oracle recommended
\* plays no part.
C2_MenuChangeIffNotCurrent ==
    \A k \in Decided :
        /\ (ChangesOf(k) # {}) <=> (Chosen(k) # Configured(k))
        /\ \A j \in ChangesOf(k) :
               menu_changes[j] = [dish |-> Chosen(k),
                                  dish_item |-> calendar_day_items[k].id]
        /\ Cardinality(ChangesOf(k)) <= 1

\* the oracle recommended dish 2 while dish 1 is configured, and the user
\* accepted dish 2: the change to dish 2 is recorded, with no adjustment
C2_Witness ==
    /\ Len(selections) = 1 /\ Len(calendar_day_items) = 1
    /\ Configured(1) = 1 /\ Recommended(1) = 2 /\ Chosen(1) = 2
    /\ menu_changes = << [dish |-> 2, dish_item |-> 1] >>
    /\ new_preferences = << >>
    /\ pc = "confirm_menu_change"

\* C3: a user adjustment is recorded for a dish item exactly when the user's
\* choice differs from the oracle's recommendation, whatever option is
\* configured on the remote side; it carries the recommended name, the chosen
\* name and the day.
C3_AdjustmentIffNotRecommended ==
    ai_result # None =>
        /\ Len(new_preferences) = Cardinality(Overridden(Len(selections)))
        /\ \A k \in Overridden(Len(selections)) :
               LET adjustment == new_preferences[Cardinality(Overridden(k))]
               IN  /\ adjustment.from = DishName(Recommended(k))
                   /\ adjustment.to = DishName(Chosen(k))
                   /\ adjustment.date = Unwrap(date)

\* dish 1 is configured for both dish items and the oracle recommended dish
\* 2 for both; the user went back to dish 1 for the first (an adjustment
\* and no menu change) and took dish 3 for the second (both)
C3_Witness ==
    /\ Len(selections) = 2
    /\ Configured(1) = 1 /\ Recommended(1) = 2 /\ Chosen(1) = 1
    /\ Configured(2) = 1 /\ Recommended(2) = 2 /\ Chosen(2) = 3
    /\ Len(new_preferences) = 2
    /\ menu_changes = << [dish |-> 3, dish_item |-> 2] >>

\* the stages of select_dishes_for_day
DayStages ==
    { "select_dishes_for_day", "fetch_historical_orders", "select_dish",
      "select_dishes", "confirm_preferences_save", "confirm_menu_change" }

\* the step completes the workflow of the day at hand
DayCompletes == pc \in DayStages /\ pc' = "main_loop"

\* C4: the stored last-processed date changes only when a day's workflow
\* completes, the value written is the day after that day, and within and
\* across runs a change only moves it forward.
C4_DateOnlyAdvances ==
    [][file'.last_day_selected # file.last_day_selected =>
          /\ DayCompletes
          /\ file'.last_day_selected = Some(Unwrap(date) + 1)
          /\ IsSome(file.last_day_selected) =>
                 Unwrap(file'.last_day_selected) > Unwrap(file.last_day_selected)]_vars

\* a run has completed day 0 and then day 1: the stored date is at day 2
C4_Witness ==
    /\ pc = "main_loop" /\ day_idx = 3
    /\ days = << 0, 1 >>
    /\ file.last_day_selected = Some(2)

\* C5: a day's workflow that ends without a fatal error has the stored date
\* at the day after it, whatever was recorded or submitted: a declined
\* preference confirmation leaves the adjustments unwritten and still goes
\* on to the menu confirmation when changes are recorded, and the menu
\* confirmation, accepted or declined, is followed by the date write.
C5_CompletionAdvancesDate ==
    [][/\ DayCompletes => file'.last_day_selected = Some(Unwrap(date) + 1)
       /\ (pc = "confirm_preferences_save" /\ pc' # "exit_err") =>
              /\ requests' = requests
              /\ IF menu_changes # << >>
                 THEN /\ pc' = "confirm_menu_change"
                      /\ menu_changes' = menu_changes
                      /\ file'.last_day_selected = file.last_day_selected
                 ELSE DayCompletes
       /\ (pc = "confirm_menu_change" /\ pc' # "exit_err") =>
              /\ DayCompletes
              /\ file'.adjustments = file.adjustments
       /\ (pc \in { "select_dish", "select_dishes" } /\ pc' \in DayStages) =>
              /\ file' = file
              /\ pc' = "confirm_menu_change" => new_preferences' = << >>]_vars

\* both confirmations were declined (adjustments and changes recorded,
\* nothing written or sent) and the date is at the day after the day
C5_Witness ==
    /\ pc = "main_loop" /\ day_idx = 2
    /\ new_preferences # << >> /\ menu_changes # << >>
    /\ file.adjustments = << >> /\ requests = << >>
    /\ file.last_day_selected = Some(Unwrap(date) + 1)

\* the run ended in the workflow of the day at hand, by an error returned
\* from main or by a panic
DayFailed == pc \in { "exit_err", "panic" } /\ IsSome(date)

\* C6: when a day's workflow fails fatally the stored date is not at the
\* day after that day, no later day of the run is attempted, and the
\* discovery window of the next invocation starts no later than the failed
\* day.
C6_FailedDayIsRetried ==
    DayFailed =>
        /\ file.last_day_selected # Some(Unwrap(date) + 1)
        /\ days[day_idx] = Unwrap(date)
        /\ WindowStart(file, now) <= Unwrap(date)

\* C7: the days discovery returns are in strictly ascending order, with no
\* day twice, also when two diets overlap and both calendars mark a day open.
C7_DaysStrictlyAscending ==
    pc # "fetch_calendar" =>
        \A i \in 1..Len(days), j \in 1..Len(days) : i < j => days[i] < days[j]

\* C8: select_dish returns a value only for an answer whose selections name
\* every dish item of the request; any other answer is an error.
C8_OmittedItemRejected ==
    IsSome(ai_result) =>
        \A k \in 1..Len(calendar_day_items) :
            calendar_day_items[k].id \in DOMAIN Unwrap(ai_result)

\* C9: change_menu is sent at most once for a day in a run, never with no
\* menu change, and the request of the day at hand carries all the menu
\* changes recorded for it.
C9_OneRequestPerDay ==
    /\ \A i \in 1..Len(requests), j \in 1..Len(requests) :
           requests[i].date = requests[j].date => i = j
    /\ \A i \in 1..Len(requests) : requests[i].items # << >>
    /\ (requests # << >> /\ Last(requests).date = Unwrap(date)) =>
           Last(requests).items = menu_changes

\* C10: a menu-change request the service answered with a failure ends the
\* run with a fatal error for its day.
C10_ServiceFailureIsFatal ==
    \A i \in 1..Len(requests) : requests[i].response # "ok" => pc = "exit_err"


\* C11: a request the service answers with its rate-limit signal is sent
\* again and never ends the run with an error: no run is at its error exit
\* on a rate-limited answer.
C11_RateLimitNeverSurfaces ==
    response = Some("rate_limited") => pc # "exit_err"


\* where main waits for a token refresh to be answered
AuthStages == { "update_token_48", "update_token_58", "authenticate" }

\* C12: a token refresh that is not answered with success leaves the run at
\* the token prompt with the stored token as it was; the stored token
\* changes only on a successful refresh at the prompt; and the run goes on
\* to the diet list only after a successful refresh, with the access token
\* obtained for the token that is then stored.
C12_RejectedRefreshReprompts ==
    [][/\ (pc \in AuthStages /\ IsSome(response') /\ response' # Some("ok")) =>
              /\ pc' \in { "update_token_48", "update_token_58" }
              /\ file' = file
       /\ file'.token # file.token =>
              /\ pc \in { "update_token_48", "update_token_58" }
              /\ response' = Some("ok")
       /\ (pc # "fetch_diets" /\ pc' = "fetch_diets") =>
              /\ pc \in AuthStages
              /\ response' = Some("ok")
              /\ IsSome(token') /\ token' = stored_token(file')]_vars

\* the refresh of the stored token was rejected: the run is at the prompt,
\* with the stored token kept
C12_Witness ==
    /\ pc = "update_token_58"
    /\ response = Some("http_error")
    /\ stored_token(file) = Some("t1")


\* the first date of the discovery window: the stored date, else today
DiscoveryStart ==
    IF file.last_day_selected # None THEN Unwrap(file.last_day_selected) ELSE now

\* the diets of members whose delivery range meets the 14 days from start
Overlapping(members, start) ==
    { k \in 1..Len(members) :
        /\ members[k].first_delivery_date <= start + 14
        /\ members[k].last_delivery_date >= start }

\* C13: discovery asks one calendar for each diet whose range meets the
\* window of 14 days from the stored date (from today when none is stored),
\* each over that window, and the days it collects are exactly the days
\* those calendars mark open-for-selection; a day in any other state is not
\* collected.
C13_DiscoveryReturnsOpenDays ==
    [][/\ (pc = "fetch_diets" /\ pc' # "exit_err") =>
              /\ days' = << >>
              /\ (pc' = "main_loop") <=> (Overlapping(diets', DiscoveryStart) = {})
              /\ (pc' = "fetch_calendar") <=> (Overlapping(diets', DiscoveryStart) # {})
       /\ (pc = "fetch_calendar" /\ pc' # "exit_err") =>
              /\ DOMAIN Unwrap(calendar') =
                     { d \in Dates : DiscoveryStart <= d /\ d <= DiscoveryStart + 14 }
              /\ Range(days') =
                     Range(days) \cup { d \in DOMAIN Unwrap(calendar') :
                                          Unwrap(calendar')[d] = "AvailableToSelect" }
              /\ (pc' = "main_loop") <=>
                     (cal_idx = Cardinality(Overlapping(diets, DiscoveryStart)))]_vars

\* one diet over all the dates, nothing stored, today is date 0, and the
\* calendar marks date 1 open and every other date locked: discovery
\* returned exactly date 1
C13_Witness ==
    /\ pc = "main_loop" /\ day_idx = 1
    /\ file.last_day_selected = None /\ now = 0
    /\ Len(diets) = 1
    /\ diets[1].first_delivery_date = 0 /\ diets[1].last_delivery_date = MaxDate
    /\ calendar = Some([d \in Dates |-> IF d = 1 THEN "AvailableToSelect"
                                                  ELSE "CannotChange"])
    /\ days = << 1 >>


\* the dish ids of the options of a dish item that are flagged enabled
EnabledDishes(dish_item) ==
    { dish_item.options[j].dish :
        j \in { i \in 1..Len(dish_item.options) : dish_item.options[i].enabled } }

\* C14: for every dish item of the day, the options in the question sent to
\* the oracle, the dish ids its response schema allows, the entries of the
\* user's prompt (as many as there are enabled options, so that no choice
\* lies past them) and the dish of every recorded menu change are enabled
\* options of that dish item.
C14_DisabledNeverOffered ==
    /\ IsSome(ai_request) =>
           \A k \in 1..Len(calendar_day_items) :
               /\ \A j \in 1..Len(Unwrap(ai_request).question.dish_items[k].options) :
                      Unwrap(ai_request).question.dish_items[k].options[j].id
                          \in EnabledDishes(calendar_day_items[k])
               /\ Range(Unwrap(ai_request).schema.dish_id_enum[k])
                      \subseteq EnabledDishes(calendar_day_items[k])
    /\ \A k \in Decided :
           selections[k] <= Cardinality(EnabledDishes(calendar_day_items[k]))
    /\ \A j \in 1..Len(menu_changes) :
           \E k \in 1..Len(calendar_day_items) :
               /\ calendar_day_items[k].id = menu_changes[j].dish_item
               /\ menu_changes[j].dish \in EnabledDishes(calendar_day_items[k])

\* a dish item whose first option is disabled and whose second is selected:
\* the oracle was asked, the user took the last option, and the change to
\* that enabled dish is recorded
C14_Witness ==
    /\ IsSome(ai_request)
    /\ Len(calendar_day_items) = 1 /\ Len(selections) = 1
    /\ ~calendar_day_items[1].options[1].enabled
    /\ Len(Unwrap(ai_request).question.dish_items[1].options) = 2
    /\ menu_changes = << [dish |-> 3, dish_item |-> 1] >>


\* the positions of the enabled options in the full option list
EnabledAt(dish_item) ==
    { j \in 1..Len(dish_item.options) : dish_item.options[j].enabled }

\* the view holds, in the order of the full list, exactly its enabled options
EnabledInOrder(dish_item) ==
    /\ Len(options(dish_item)) = Cardinality(EnabledAt(dish_item))
    /\ \A i \in 1..Len(options(dish_item)) :
           \E j \in EnabledAt(dish_item) :
               /\ options(dish_item)[i] = dish_item.options[j]
               /\ Cardinality({ h \in EnabledAt(dish_item) : h < j }) = i - 1

\* C15 as stated: for every dish item options() is a strict subset of the
\* full option list (it leaves at least one option out), in the order of the
\* full list and with no disabled option.
C15_OptionsStrictSubset ==
    \A k \in 1..Len(calendar_day_items) :
        /\ EnabledInOrder(calendar_day_items[k])
        /\ Len(options(calendar_day_items[k])) < Len(calendar_day_items[k].options)

\* C15: for every dish item options() is a sub-sequence of the full option
\* list, the whole list when every option is enabled: it holds exactly the
\* enabled options, in the order of the full list, and no disabled one.
C15_OptionsEnabledInOrder ==
    \A k \in 1..Len(calendar_day_items) :
        /\ EnabledInOrder(calendar_day_items[k])
        /\ \A i \in 1..Len(options(calendar_day_items[k])) :
               options(calendar_day_items[k])[i].enabled
        /\ Len(options(calendar_day_items[k])) <= Len(calendar_day_items[k].options)

\* the oracle was asked about two dish items, one with every option enabled
\* (the view is the whole list) and one with its first option disabled
C15_Witness ==
    /\ IsSome(ai_request) /\ Len(calendar_day_items) = 2
    /\ Len(options(calendar_day_items[1])) = Len(calendar_day_items[1].options)
    /\ ~calendar_day_items[2].options[1].enabled
    /\ Len(Unwrap(ai_request).question.dish_items[2].options) = 2


\* the positions, in the full option list, of the options whose dish is the
\* dish item's configured default
DefaultAt(dish_item) ==
    { i \in 1..Len(dish_item.options) :
        dish_item.options[i].dish = dish_item.dish_size_dish }

\* C16: for every dish item get_selected_option yields no option when no
\* option's dish id is the configured default, and otherwise exactly one
\* option, an option of the dish item whose dish id is the configured
\* default; it never yields more than one.
C16_SelectedOptionIsTheDefault ==
    \A k \in 1..Len(calendar_day_items) :
        LET dish_item == calendar_day_items[k]
            found == get_selected_option(dish_item)
        IN  /\ Len(found) <= 1
            /\ (DefaultAt(dish_item) = {}) <=> (found = None)
            /\ IsSome(found) =>
                   /\ Unwrap(found).dish = dish_item.dish_size_dish
                   /\ \E i \in DefaultAt(dish_item) : dish_item.options[i] = Unwrap(found)

\* select_dishes has resolved the selected option of a first dish item whose
\* default is its second option, and stands at a second dish item whose
\* default matches no option
C16_Witness ==
    /\ pc = "select_dishes" /\ dish_idx = 2
    /\ calendar_day_items[1].dish_size_dish = 2
    /\ Unwrap(get_selected_option(calendar_day_items[1])).dish = 2
    /\ get_selected_option(calendar_day_items[2]) = None


\* C17: when no diet's range meets the discovery window no calendar is
\* asked and discovery returns the empty list, and a calendar with no open
\* day adds nothing to it; with the empty list the run ends successfully
\* from the loop head without starting a day; and the stored date, the
\* stored adjustments and the submitted menu changes change only inside a
\* day's workflow, which starts only on a non-empty list.
C17_NothingToDoLeavesNoTrace ==
    [][/\ (pc = "fetch_diets" /\ pc' # "exit_err"
              /\ Overlapping(diets', DiscoveryStart) = {}) =>
              pc' = "main_loop" /\ days' = << >>
       /\ (pc = "fetch_calendar" /\ pc' # "exit_err" /\ days = << >>
              /\ \A d \in DOMAIN Unwrap(calendar') :
                     Unwrap(calendar')[d] # "AvailableToSelect") =>
              days' = << >>
       /\ (pc = "main_loop" /\ days = << >>) =>
              /\ pc' = "exit_ok"
              /\ file' = file /\ requests' = requests /\ requests = << >>
              /\ date = None /\ date' = None
       /\ (pc' \in DayStages /\ pc \notin DayStages) =>
              pc = "main_loop" /\ days # << >>
       /\ (\/ file'.last_day_selected # file.last_day_selected
           \/ file'.adjustments # file.adjustments
           \/ requests' # requests) =>
              pc \in DayStages /\ days # << >>]_vars

\* a run with a stored date found two diets, one whose range meets the
\* window but with no open day and one past the window, and has ended
\* successfully with nothing submitted and the stored date as it was
C17_Witness ==
    /\ pc = "exit_ok" /\ days = << >> /\ date = None
    /\ Len(diets) = 2
    /\ Cardinality(Overlapping(diets, DiscoveryStart)) = 1
    /\ file.last_day_selected = Some(0)
    /\ requests = << >> /\ file.adjustments = << >>


\* C18: when a day's workflow has failed fatally, the Preference Store holds
\* no adjustment recorded for that day and no menu change for that day has
\* been submitted (a request the transport failed to send is not counted
\* as submitted).
C18_FailedDayLeavesNoTrace ==
    DayFailed =>
        /\ \A i \in 1..Len(file.adjustments) :
               file.adjustments[i].date # Unwrap(date)
        /\ \A j \in 1..Len(requests) :
               requests[j].date = Unwrap(date) => SendFails(requests[j].response)


\* C19: the confirmation of the adjustments is reached exactly when the
\* day's choices recorded at least one; the stored adjustments change only
\* there and only on the answer yes; on the answer no they are as before;
\* on yes they are the last min(100, old + new) entries of the old history
\* followed by the day's adjustments, which are in the order of the dish
\* items they were recorded for.
C19_AppendedIffConfirmed ==
    [][/\ (/\ pc = "select_dishes"
           /\ pc' \in { "confirm_preferences_save", "confirm_menu_change",
                         "main_loop" }) =>
              (pc' = "confirm_preferences_save") <=> (new_preferences' # << >>)
       /\ file'.adjustments # file.adjustments =>
              pc = "confirm_preferences_save" /\ confirmed' = Some(TRUE)
       /\ pc = "confirm_preferences_save" =>
              /\ new_preferences # << >>
              /\ new_preferences' = new_preferences
              /\ \A k \in Overridden(Len(selections)) :
                     new_preferences[Cardinality(Overridden(k))].to = DishName(Chosen(k))
              /\ confirmed' # Some(TRUE) => file'.adjustments = file.adjustments
              /\ confirmed' = Some(TRUE) =>
                     LET all == file.adjustments \o new_preferences
                         kept == file'.adjustments
                     IN  /\ Len(kept) = Min(Len(all), MAX_ADJUSTMENTS)
                         /\ \A i \in 1..Len(kept) :
                                kept[i] = all[Len(all) - Len(kept) + i]]_vars

\* on a store one entry short of the cap the user confirmed the two
\* adjustments of the day: the oldest stored entry is gone and the two are
\* the last entries, in their order
C19_Witness ==
    /\ confirmed = Some(TRUE) /\ pc \in { "confirm_menu_change", "main_loop" }
    /\ Len(new_preferences) = 2 /\ new_preferences[1] # new_preferences[2]
    /\ Len(file.adjustments) = MAX_ADJUSTMENTS
    /\ file.adjustments[1] = History(2)[2]
    /\ file.adjustments[MAX_ADJUSTMENTS - 1] = new_preferences[1]
    /\ file.adjustments[MAX_ADJUSTMENTS] = new_preferences[2]


\* C20: the day a run is working on is later than every day the run worked
\* on before it (ascending order, no day twice), and the adjustment history
\* in the question put to the oracle for the day is the store as it is at
\* the call, with whatever was confirmed for the earlier days of the run.
C20_DaysOnceWithCurrentHistory ==
    /\ pc \in DayStages =>
           \A i \in 1..(day_idx - 1) : days[i] < days[day_idx]
    /\ (pc \in { "select_dishes", "confirm_preferences_save" } /\ IsSome(ai_request)) =>
           Unwrap(ai_request).question.user_changes = file.adjustments


\* C21: the decision loop takes the dish items in the order of the fetched
\* list, one per round, and reads the oracle's choice under the dish item's
\* id; when the selections have no entry for the dish item at hand the
\* process aborts there: nothing is written to the store, no menu change is
\* sent, the store holds no adjustment of the day and not the date after
\* the day, and no step follows.
C21_MissingChoiceIsFatal ==
    [][/\ pc = "select_dishes" =>
              LET dish_item == calendar_day_items[dish_idx]
                  picks == Unwrap(ai_result)
              IN  /\ dish_idx = Len(selections) + 1
                  /\ dish_item.id \notin DOMAIN picks =>
                         /\ pc' = "panic"
                         /\ file' = file /\ requests' = requests
                         /\ \A i \in 1..Len(file.adjustments) :
                                file.adjustments[i].date # Unwrap(date)
                         /\ \A j \in 1..Len(requests) :
                                requests[j].date # Unwrap(date)
                         /\ file.last_day_selected # Some(Unwrap(date) + 1)
                  /\ (/\ dish_item.id \in DOMAIN picks
                      /\ Len(new_preferences') > Len(new_preferences)) =>
                         Last(new_preferences').from = DishName(picks[dish_item.id])
       /\ pc = "panic" => pc' = "panic" /\ file' = file /\ requests' = requests]_vars

\* the bundle came with the dish item of id 2 first; the user overrode the
\* oracle's choice for it, found under id 2, and the selections had no
\* entry for the second dish item, of id 1: the process aborted with
\* nothing stored or sent
C21_Witness ==
    /\ pc = "panic" /\ dish_idx = 2 /\ Len(selections) = 1
    /\ calendar_day_items[1].id = 2 /\ calendar_day_items[2].id = 1
    /\ DOMAIN Unwrap(ai_result) = { 2 }
    /\ Len(new_preferences) = 1 /\ Len(menu_changes) = 1
    /\ file.adjustments = << >> /\ requests = << >>
    /\ file.last_day_selected = None


\* the ingredient requests sent for the option of dish `dish` of the dish
\* item `id`
HydrationsOf(sent, id, dish) ==
    { i \in 1..Len(sent) : sent[i] = [dish_item |-> id, dish |-> dish] }

\* C22: when get_diet_with_ingredients succeeds for the day, every enabled
\* option of every dish item has ingredients, one request was sent for each
\* option whose ingredients were fetched and none for an option that came
\* with them; when it fails, at the items request or at any ingredient
\* request, the run ends there with no bundle, no question to the oracle
\* and no choice asked of the user; the oracle is asked only about a bundle
\* whose options all have ingredients.
C22_HydrationAllOrNothing ==
    [][/\ (pc = "select_dishes_for_day" /\ pc' # "exit_err") =>
              /\ pc' = "fetch_historical_orders"
              /\ \A k \in 1..Len(calendar_day_items') :
                     LET dish_item == calendar_day_items'[k]
                     IN  \A j \in 1..Len(dish_item.options) :
                           LET option == dish_item.options[j]
                               asked == HydrationsOf(hydrations', dish_item.id, option.dish)
                           IN  /\ option.enabled => option.ingredients # None
                               /\ option.ingredients = Some("given") => asked = {}
                               /\ option.ingredients = Some("fetched") =>
                                      Cardinality(asked) = 1
       /\ (pc = "select_dishes_for_day" /\ pc' = "exit_err") =>
              /\ calendar_day_items' = << >> /\ ai_request' = None
              /\ selections' = << >> /\ file' = file /\ requests' = requests
       /\ pc = "exit_err" => pc' = "exit_err" /\ ai_request' = ai_request
                                 /\ selections' = selections
       /\ ai_request' # ai_request /\ IsSome(ai_request') =>
              \A k \in 1..Len(calendar_day_items) :
                  \A j \in 1..Len(calendar_day_items[k].options) :
                      calendar_day_items[k].options[j].ingredients # None]_vars

\* the bundle came with the ingredients of the second of three options; the
\* request for the first succeeded, none was sent for the second, and the
\* request for the third failed: the run ended with no bundle, before the
\* oracle and the prompts
C22_Witness ==
    /\ pc = "exit_err" /\ IsSome(date)
    /\ hydrations = << [dish_item |-> 1, dish |-> 1], [dish_item |-> 1, dish |-> 3] >>
    /\ calendar_day_items = << >> /\ ai_request = None /\ selections = << >>


\* the days before d, out of the HISTORY_DAYS before it, that a diet covers
CoveredBefore(d) ==
    { x \in (d - HISTORY_DAYS)..(d - 1) :
        \E k \in 1..Len(diets) :
            diets[k].first_delivery_date <= x /\ x <= diets[k].last_delivery_date }

\* C23: the history gathered for day d has exactly one entry for each of
\* the 7 days d-7..d-1 that some diet covers and none for another day, the
\* entries are in order of their day, oldest first, each under the key of
\* its distance from d and from a diet that covers its day; the gathering
\* fails only on a request for a covered day, never for want of coverage.
C23_HistoryOldestFirst ==
    [][/\ (pc = "fetch_historical_orders" /\ pc' # "exit_err") =>
              LET d == Unwrap(date)
                  history == last_days_choices'
              IN  /\ pc' = "select_dish"
                  /\ { history[i].date : i \in 1..Len(history) } = CoveredBefore(d)
                  /\ \A i \in 1..Len(history), j \in 1..Len(history) :
                         i < j => history[i].date < history[j].date
                  /\ \A i \in 1..Len(history) :
                         /\ history[i].key.n = d - history[i].date
                         /\ history[i].key.label =
                                IF d - history[i].date = 1 THEN "yesterday"
                                                          ELSE "days ago"
                         /\ \E k \in 1..Len(diets) :
                                /\ diets[k].id = history[i].diet_id
                                /\ diets[k].first_delivery_date <= history[i].date
                                /\ history[i].date <= diets[k].last_delivery_date
       /\ (pc = "fetch_historical_orders" /\ pc' = "exit_err") =>
              /\ CoveredBefore(Unwrap(date)) # {}
              /\ IsSome(response') /\ ~json_call_ok(Unwrap(response'))]_vars

\* for day 0 with one diet over days -7..-6 and one from day -3 on, the
\* history has the five covered days, oldest first, and skips days -5, -4
C23_Witness ==
    /\ pc = "select_dish" /\ date = Some(0)
    /\ Len(last_days_choices) = 5
    /\ [i \in 1..5 |-> last_days_choices[i].date]
           = << 0 - 7, 0 - 6, 0 - 3, 0 - 2, 0 - 1 >>
    /\ last_days_choices[1].key = [label |-> "days ago", n |-> 7]
    /\ last_days_choices[5].key = [label |-> "yesterday", n |-> 1]


\* C25: the day a run works on is covered by a diet, the diet that
\* diet_for_date resolves for it is one whose calendar reported the day
\* open-for-selection, the day's items are fetched from that diet, and every
\* menu change sent goes to a diet whose calendar reported its day open.
C25_ResolvedDietReportedTheDay ==
    /\ IsSome(date) =>
           /\ IsSome(diet_for_date(diets, Unwrap(date)))
           /\ [diet_id |-> Unwrap(diet_for_date(diets, Unwrap(date))).id,
               date |-> Unwrap(date)] \in reported
           /\ IsSome(diet_id) =>
                  Unwrap(diet_id) = Unwrap(diet_for_date(diets, Unwrap(date))).id
    /\ \A j \in 1..Len(requests) :
           [diet_id |-> requests[j].diet_id, date |-> requests[j].date] \in reported


\* C26: when every dish item of the bundle has an enabled option and the
\* oracle chose an enabled option for each, no round of the decision loop
\* aborts the process, whatever option is configured for a dish item: an
\* enabled one, a disabled one, or one that no option matches.
C26_DecisionLoopNeverAborts ==
    [][(/\ pc = "select_dishes"
        /\ \A k \in 1..Len(calendar_day_items) :
               LET dish_item == calendar_day_items[k]
               IN  /\ options(dish_item) # << >>
                   /\ dish_item.id \in DOMAIN Unwrap(ai_result)
                   /\ Unwrap(ai_result)[dish_item.id] \in EnabledDishes(dish_item)) =>
          pc' # "panic"]_vars


\* C24: in a run the stored token changes only in update_token, whose
\* save_token leaves the stored date and adjustments as they were; no step
\* of a day's workflow changes the token; the adjustments change only in
\* confirm_preferences_save, whose add_new_preferences leaves the date as
\* it was (the date moves in the same step only when the day completes
\* there, by set_next_day_to_check); and the set_next_day_to_check that
\* completes a day leaves the token and, outside that step, the
\* adjustments as they were.
C24_MutationsKeepOtherFields ==
    [][/\ pc \in { "update_token_48", "update_token_58" } =>
              /\ file'.adjustments = file.adjustments
              /\ file'.last_day_selected = file.last_day_selected
       /\ file'.token # file.token => pc \in { "update_token_48", "update_token_58" }
       /\ file'.adjustments # file.adjustments =>
              /\ pc = "confirm_preferences_save"
              /\ file'.token = file.token
              /\ file'.last_day_selected # file.last_day_selected => DayCompletes
       /\ (pc = "confirm_preferences_save" /\ pc' = "confirm_menu_change") =>
              file'.last_day_selected = file.last_day_selected
       /\ file'.last_day_selected # file.last_day_selected =>
              /\ file'.token = file.token
              /\ file'.adjustments # file.adjustments => pc = "confirm_preferences_save"
       /\ (pc \in { "select_dish", "select_dishes", "confirm_menu_change" }
              /\ DayCompletes) =>
              file'.adjustments = file.adjustments]_vars

\* a run saved the token the user entered, stored an adjustment and then
\* the date after the day: the record holds all three
C24_Witness ==
    /\ pc = "main_loop" /\ day_idx = 2
    /\ file.token = Some("t2") /\ token # None
    /\ Len(file.adjustments) = 1 /\ file.adjustments[1].date = 0
    /\ file.last_day_selected = Some(1)
    /\ Len(requests) = 1

====
